---- MODULE Spec2Model ----
(***************************************************************************)
(* Model of src/split_long_image.py: the long-screenshot splitter.         *)
(*                                                                         *)
(* An image is a record [mode, width, height, fill, rows].  Its pixel      *)
(* buffer is stored sparsely: rows maps the row indices whose pixels are   *)
(* listed one by one, every other row of 0..height-1 holds the pixels of   *)
(* fill.  A row is a sequence of width pixels; a pixel of an "L" image is  *)
(* one uint8 value, a pixel of an "RGB" image is a triple of uint8 values. *)
(***************************************************************************)
EXTENDS Integers, Sequences, FiniteSets, TLC

VARIABLES
    MAX_HEIGHT,            \* module global, line 15
    SPLIT_HEIGHT,          \* module global, line 16
    SEARCH_RANGE,          \* module global, line 17
    OVERLAP,               \* module global, line 18
    source,                \* the file at input_path: [status, image]
    pc,                    \* position of split_long_image
    img,                   \* the opened image, NoImage before line 90
    n_splits,              \* line 103
    target_split_points,   \* line 107
    actual_split_points,   \* line 111
    resolved,              \* results of searches made in any order, as they arrive
    output_dir,            \* TRUE once the output directory exists
    boundaries,            \* line 131
    i,                     \* loop index of line 133
    parts,                 \* the segment files saved so far, in order
    args,                  \* arguments of a direct find_safe_split_point call
    best_y                 \* line 66, then its return value

vars == <<MAX_HEIGHT, SPLIT_HEIGHT, SEARCH_RANGE, OVERLAP, source, pc, img,
          n_splits, target_split_points, actual_split_points, resolved,
          output_dir, boundaries, i, parts, args, best_y>>

\* The values the module sets at import.
DefaultMaxHeight == 3200
DefaultSplitHeight == 3000
DefaultSearchRange == 100
DefaultOverlap == 50

----------------------------------------------------------------------------
\* Bounds of the model.

\* Images under the shipped configuration are up to MaxSegs * SPLIT_HEIGHT
\* rows past the offsets below.
MaxSegs == 2
\* Rows of such an image that differ from its base row.
MaxSpecial == 1
\* Small images (direct calls of find_safe_split_point, overridden
\* configurations) have 1..MaxSmallHeight rows.
MaxSmallHeight == 4
\* Overridden configuration values and direct-call arguments range over
\* -1..MaxParam.
MaxParam == 3

----------------------------------------------------------------------------
\* Arithmetic helpers.

Max(a, b) == IF a >= b THEN a ELSE b
Min(a, b) == IF a <= b THEN a ELSE b
Abs(a) == IF a < 0 THEN -a ELSE a

\* float("inf"), line 65: compared only against edge strengths, which are >= 0.
Inf == -1

\* Mutant of CeilDiv: the quotient rounded down.
FloorDiv(a, b) ==
    IF b > 0 THEN a \div b
    ELSE -((a + (-b) - 1) \div (-b))

\* math.ceil(a / b) for a >= 0 and b # 0.
CeilDiv(a, b) ==
    IF b > 0 THEN (a + b - 1) \div b
    ELSE -(a \div (-b))

RECURSIVE SumSeq(_)
SumSeq(s) == IF s = <<>> THEN 0 ELSE Head(s) + SumSeq(Tail(s))

----------------------------------------------------------------------------
\* compute_edge_strength, lines 21-45.

\* np.mean(row_array, axis=2): the arithmetic mean of a pixel's channels.
\* The images of this model have channel sums divisible by the channel
\* count, so the float64 mean is the exact integer.
MeanChannels(px) == SumSeq(px) \div Len(px)

\* np.abs(np.diff(row_pixels)): on the uint8 array of an "L" image the
\* difference wraps modulo 256 and abs leaves it alone; on the float64
\* array of means it is the absolute difference.
AbsDiff(mode, a, b) ==
    IF mode = "L" THEN (b - a) % 256 ELSE Abs(b - a)

\* img.crop((0, y, img.width, y + 1)), line 33: the pixels of row y.
CropRow(im, y) == IF y \in DOMAIN im.rows THEN im.rows[y] ELSE im.fill

\* Lines 37-38: a row of a multi-channel image is reduced to channel means.
Luminance(mode, px) == IF mode = "L" THEN px ELSE MeanChannels(px)

\* Lines 42-45: the sum of the differences of the pixels x, x+1 from x on.
RECURSIVE SumDiffs(_, _, _)
SumDiffs(mode, row, x) ==
    IF x >= Len(row) THEN 0
    ELSE AbsDiff(mode, Luminance(mode, row[x]), Luminance(mode, row[x + 1]))
         + SumDiffs(mode, row, x + 1)

compute_edge_strength(im, y) == SumDiffs(im.mode, CropRow(im, y), 1)

----------------------------------------------------------------------------
\* find_safe_split_point, lines 48-74.

\* Mutant of LessThanMin: <= lets the last row attaining the minimum win.
LessOrEqualMin(edge_strength, min_edge) ==
    min_edge = Inf \/ edge_strength <= min_edge

\* The comparison of line 70.
LessThanMin(edge_strength, min_edge) ==
    min_edge = Inf \/ edge_strength < min_edge

\* One iteration of the loop, lines 69-72, on the pair <<min_edge, best_y>>.
ScanStep(im, y, st) ==
    LET edge_strength == compute_edge_strength(im, y)
    IN  IF LessThanMin(edge_strength, st[1]) THEN <<edge_strength, y>> ELSE st

\* The loop of lines 68-72 over the rows y..end_y-1, in increasing order.
\* The range is walked by halves (first half, then second half from the
\* state the first leaves, which is evaluated before the second half starts)
\* so that the evaluation nests log(end_y - y) deep.
RECURSIVE ScanRows(_, _, _, _)
ScanRows(im, y, end_y, st) ==
    IF y >= end_y THEN st
    ELSE IF end_y = y + 1 THEN ScanStep(im, y, st)
    ELSE LET mid == (y + end_y) \div 2
             first == ScanRows(im, y, mid, st)
         IN  IF first[2] = first[2] THEN ScanRows(im, mid, end_y, first) ELSE st

WindowStart(target_y, search_range) == Max(0, target_y - search_range)
\* Mutant of WindowEnd: the window is not cut off at the image height.
WindowEndNoClamp(im, target_y, search_range) == target_y + search_range

WindowEnd(im, target_y, search_range) == Min(im.height, target_y + search_range)

find_safe_split_point(im, target_y, search_range) ==
    ScanRows(im, WindowStart(target_y, search_range),
             WindowEnd(im, target_y, search_range), <<Inf, target_y>>)[2]

----------------------------------------------------------------------------
\* split_long_image, lines 77-161.

NoImage == [mode |-> "None", width |-> 0, height |-> 0, fill |-> <<>>, rows |-> <<>>]

\* Mutant of NeedsNoSplit: an image of exactly max_height rows is split.
NeedsNoSplitStrict(height, max_height) == height < max_height

\* The test of line 95.
NeedsNoSplit(height, max_height) == height <= max_height

\* Line 131.
Boundaries(actual, height) == <<0>> \o actual \o <<height>>

\* Lines 103-107.
Targets(split_height, n) == [k \in 1..(n - 1) |-> split_height * k]

\* Mutant of ResolveLoop: each later target is SPLIT_HEIGHT rows past the
\* previous actual cut instead of the next multiple.
RECURSIVE ResolveLoopDrift(_, _, _, _)
ResolveLoopDrift(im, rest, search_range, acc) ==
    IF rest = <<>> THEN acc
    ELSE LET target_y == IF acc = <<>> THEN Head(rest)
                         ELSE acc[Len(acc)] + SPLIT_HEIGHT
         IN  ResolveLoopDrift(im, Tail(rest), search_range,
                              Append(acc, find_safe_split_point(im, target_y,
                                                                search_range)))

\* The loop of lines 111-118: each target is searched in turn and its
\* result appended.
RECURSIVE ResolveLoop(_, _, _, _)
ResolveLoop(im, rest, search_range, acc) ==
    IF rest = <<>> THEN acc
    ELSE ResolveLoop(im, Tail(rest), search_range,
                     Append(acc, find_safe_split_point(im, Head(rest), search_range)))

\* Whether the loop of lines 111-118 crops a row, which makes PIL decode the
\* pixel data of the lazily opened file.
LoopDecodes(im, targets, search_range) ==
    \E k \in DOMAIN targets :
        WindowStart(targets[k], search_range) < WindowEnd(im, targets[k], search_range)

\* Mutants of SegStart: the next boundary instead of this one; no overlap.
SegStartNext(bnd, k, overlap) ==
    IF k = 0 THEN 0
    ELSE Max(bnd[k + 2] - overlap, 0)

SegStartNoOverlap(bnd, k, overlap) ==
    IF k = 0 THEN 0
    ELSE bnd[k + 1]

\* Mutant of SegEnd: the end is not cut off at the image height.
SegEndNoClamp(bnd, k, overlap, height) ==
    IF k = Len(bnd) - 2 THEN height
    ELSE bnd[k + 2] + overlap

\* Lines 135-146, for the 0-based segment index k; bnd[k + 1] is the
\* code's boundaries[k].
SegStart(bnd, k, overlap) ==
    IF k = 0 THEN 0
    ELSE Max(bnd[k + 1] - overlap, 0)

SegEnd(bnd, k, overlap, height) ==
    IF k = 0 THEN Min(bnd[k + 2] + overlap, height)
    ELSE IF k = Len(bnd) - 2 THEN height
    ELSE Min(bnd[k + 2] + overlap, height)

\* Mutant of OpenImage: the output directory is created before the image
\* is opened.
OpenImageAfterMkdir ==
    /\ pc = "start"
    /\ output_dir' = TRUE
    /\ IF source.status \in {"missing", "undecodable"}
       THEN /\ pc' = "input_error"
            /\ img' = img
       ELSE /\ pc' = "opened"
            /\ img' = source.image
    /\ UNCHANGED <<MAX_HEIGHT, SPLIT_HEIGHT, SEARCH_RANGE, OVERLAP, source,
                   n_splits, target_split_points, actual_split_points, resolved,
                   boundaries, i, parts, args, best_y>>

\* Line 90: Image.open raises for a missing or unidentifiable file; it reads
\* the header only, so a file whose pixel data is truncated opens.
OpenImage ==
    /\ pc = "start"
    /\ IF source.status \in {"missing", "undecodable"}
       THEN /\ pc' = "input_error"
            /\ img' = img
       ELSE /\ pc' = "opened"
            /\ img' = source.image
    /\ UNCHANGED <<MAX_HEIGHT, SPLIT_HEIGHT, SEARCH_RANGE, OVERLAP, source,
                   n_splits, target_split_points, actual_split_points, resolved,
                   output_dir, boundaries, i, parts, args, best_y>>

\* Lines 95-100.
NoSplit ==
    /\ pc = "opened"
    /\ NeedsNoSplit(img.height, MAX_HEIGHT)
    /\ pc' = "no_split"
    /\ UNCHANGED <<MAX_HEIGHT, SPLIT_HEIGHT, SEARCH_RANGE, OVERLAP, source, img,
                   n_splits, target_split_points, actual_split_points, resolved,
                   output_dir, boundaries, i, parts, args, best_y>>

\* Lines 103-107; height / SPLIT_HEIGHT raises ZeroDivisionError.
PlanSplits ==
    /\ pc = "opened"
    /\ ~NeedsNoSplit(img.height, MAX_HEIGHT)
    /\ IF SPLIT_HEIGHT = 0
       THEN /\ pc' = "zero_division"
            /\ UNCHANGED <<n_splits, target_split_points>>
       ELSE /\ pc' = "planned"
            /\ n_splits' = CeilDiv(img.height, SPLIT_HEIGHT)
            /\ target_split_points' = Targets(SPLIT_HEIGHT, n_splits')
    /\ UNCHANGED <<MAX_HEIGHT, SPLIT_HEIGHT, SEARCH_RANGE, OVERLAP, source, img,
                   actual_split_points, resolved,
                   output_dir, boundaries, i, parts, args, best_y>>

\* Lines 111-118; the first crop decodes the file and raises if its pixel
\* data is truncated.
FindSplitPoints ==
    /\ pc = "planned"
    /\ IF source.status = "truncated"
          /\ LoopDecodes(img, target_split_points, SEARCH_RANGE)
       THEN /\ pc' = "input_error"
            /\ UNCHANGED actual_split_points
       ELSE /\ pc' = "found"
            /\ actual_split_points' =
                   ResolveLoop(img, target_split_points, SEARCH_RANGE, <<>>)
    /\ UNCHANGED <<MAX_HEIGHT, SPLIT_HEIGHT, SEARCH_RANGE, OVERLAP, source, img,
                   n_splits, target_split_points, resolved,
                   output_dir, boundaries, i, parts, args, best_y>>

\* Lines 121-131: the directory is created (or mkdir raises), then the
\* boundaries are built.
MakeOutputDir ==
    /\ pc = "found"
    /\ \/ /\ pc' = "splitting"
          /\ output_dir' = TRUE
          /\ boundaries' = Boundaries(actual_split_points, img.height)
          /\ i' = 0
       \/ /\ pc' = "output_error"
          /\ UNCHANGED <<output_dir, boundaries, i>>
    /\ UNCHANGED <<MAX_HEIGHT, SPLIT_HEIGHT, SEARCH_RANGE, OVERLAP, source, img,
                   n_splits, target_split_points, actual_split_points, resolved,
                   parts, args, best_y>>

\* One iteration of lines 133-159: crop and save segment i + 1.  The crop
\* decodes a file not decoded before; the save may fail.
SavePart ==
    /\ pc = "splitting"
    /\ i < Len(boundaries) - 1
    /\ IF source.status = "truncated"
       THEN /\ pc' = "input_error"
            /\ UNCHANGED <<i, parts>>
       ELSE \/ /\ parts' = Append(parts,
                       [index |-> i + 1,
                        y_start |-> SegStart(boundaries, i, OVERLAP),
                        y_end |-> SegEnd(boundaries, i, OVERLAP, img.height)])
               /\ i' = i + 1
               /\ pc' = pc
            \/ /\ pc' = "output_error"
               /\ UNCHANGED <<i, parts>>
    /\ UNCHANGED <<MAX_HEIGHT, SPLIT_HEIGHT, SEARCH_RANGE, OVERLAP, source, img,
                   n_splits, target_split_points, actual_split_points, resolved,
                   output_dir, boundaries, args, best_y>>

\* Line 161.
Finish ==
    /\ pc = "splitting"
    /\ i = Len(boundaries) - 1
    /\ pc' = "done"
    /\ UNCHANGED <<MAX_HEIGHT, SPLIT_HEIGHT, SEARCH_RANGE, OVERLAP, source, img,
                   n_splits, target_split_points, actual_split_points, resolved,
                   output_dir, boundaries, i, parts, args, best_y>>

\* The targets searched so far, in any order.
ResolvedIndices == {resolved[j].index : j \in DOMAIN resolved}

\* The loop body of lines 113-114 run for any one target not yet searched,
\* as a worker pool would run it; resolved lists the results in the order
\* they arrive.
ResolveAny ==
    /\ pc = "planned"
    /\ \E k \in DOMAIN target_split_points \ ResolvedIndices :
          IF source.status = "truncated"
             /\ WindowStart(target_split_points[k], SEARCH_RANGE)
                   < WindowEnd(img, target_split_points[k], SEARCH_RANGE)
          THEN /\ pc' = "input_error"
               /\ UNCHANGED resolved
          ELSE /\ pc' = pc
               /\ resolved' =
                     Append(resolved,
                            [index |-> k,
                             safe_y |-> find_safe_split_point(
                                          img, target_split_points[k], SEARCH_RANGE)])
    /\ UNCHANGED <<MAX_HEIGHT, SPLIT_HEIGHT, SEARCH_RANGE, OVERLAP, source, img,
                   n_splits, target_split_points, actual_split_points,
                   output_dir, boundaries, i, parts, args, best_y>>

\* The results joined in target-row order once every target is searched.
Reassemble ==
    /\ pc = "planned"
    /\ ResolvedIndices = DOMAIN target_split_points
    /\ actual_split_points' =
          [k \in 1..Len(target_split_points) |->
             resolved[CHOOSE j \in DOMAIN resolved : resolved[j].index = k].safe_y]
    /\ pc' = "found"
    /\ UNCHANGED <<MAX_HEIGHT, SPLIT_HEIGHT, SEARCH_RANGE, OVERLAP, source, img,
                   n_splits, target_split_points, resolved,
                   output_dir, boundaries, i, parts, args, best_y>>

\* A direct call find_safe_split_point(img, target_y, search_range).
CallFind ==
    /\ pc = "call"
    /\ best_y' = find_safe_split_point(img, args.target_y, args.search_range)
    /\ pc' = "returned"
    /\ UNCHANGED <<MAX_HEIGHT, SPLIT_HEIGHT, SEARCH_RANGE, OVERLAP, source, img,
                   n_splits, target_split_points, actual_split_points, resolved,
                   output_dir, boundaries, i, parts, args>>

----------------------------------------------------------------------------
\* The inputs.

Shapes == {[mode |-> "L", width |-> 3], [mode |-> "RGB", width |-> 2],
           [mode |-> "L", width |-> 1]}

\* Rows of edge strength 0, 1 and 255 (for "L", 255 by uint8 wrap-around:
\* 0 - 1 is 255).
Blank(shape) ==
    IF shape.mode = "RGB" THEN << <<9, 9, 9>>, <<9, 9, 9>> >>
    ELSE IF shape.width = 3 THEN <<7, 7, 7>> ELSE <<5>>
Faint(shape) ==
    IF shape.mode = "RGB" THEN << <<3, 0, 0>>, <<0, 0, 0>> >>
    ELSE IF shape.width = 3 THEN <<0, 1, 1>> ELSE <<200>>
Busy(shape) ==
    IF shape.mode = "RGB" THEN << <<0, 0, 0>>, <<255, 255, 255>> >>
    ELSE IF shape.width = 3 THEN <<1, 0, 0>> ELSE <<0>>

RowKinds(shape) == {Blank(shape), Faint(shape), Busy(shape)}

\* Every image of 1..MaxSmallHeight rows over the row kinds.
SmallImages ==
    UNION {UNION {{[mode |-> sh.mode, width |-> sh.width, height |-> h,
                    fill |-> r[0], rows |-> r] :
                      r \in [0..(h - 1) -> RowKinds(sh)]} :
                  h \in 1..MaxSmallHeight} :
           sh \in Shapes}

\* Image heights around the multiples of the shipped SPLIT_HEIGHT.
HeightOffsets == {1, 200, 201, 600, 2000, 3000}
LargeHeights ==
    {DefaultSplitHeight * k + d : k \in 0..MaxSegs, d \in HeightOffsets}

\* The rows at and just beyond the edges of the shipped search windows.
WindowOffsets == {-101, -100, 0, 99, 100}
CandidateRows(h) ==
    {y \in {DefaultSplitHeight * k + d : k \in 1..(MaxSegs + 1), d \in WindowOffsets} :
        y < h}

RECURSIVE SubsetsUpTo(_, _)
SubsetsUpTo(C, n) ==
    IF n = 0 THEN {{}}
    ELSE LET smaller == SubsetsUpTo(C, n - 1)
         IN  smaller \cup {s \cup {c} : s \in smaller, c \in C}

\* The <<fill, special>> rows of the tall images.
LargePairs(sh) ==
    IF sh.mode = "RGB" THEN {<<Busy(sh), Blank(sh)>>}
    ELSE {<<Faint(sh), Blank(sh)>>, <<Blank(sh), Busy(sh)>>, <<Busy(sh), Faint(sh)>>}

\* Tall images: one row kind everywhere but on at most MaxSpecial rows.
LargeImagesWith(n) ==
    UNION {UNION {{[mode |-> sh.mode, width |-> sh.width, height |-> h,
                    fill |-> pair[1], rows |-> [y \in S |-> pair[2]]] :
                      S \in SubsetsUpTo(CandidateRows(h), n),
                      pair \in LargePairs(sh)} :
                  h \in LargeHeights} :
           sh \in {x \in Shapes : x.width > 1}}

LargeImages == LargeImagesWith(MaxSpecial)

\* The files input_path may name.
Sources(images, plain) ==
    {[status |-> "ok", image |-> im] : im \in images}
    \cup {[status |-> "truncated", image |-> im] : im \in plain}
    \cup {[status |-> st, image |-> NoImage] : st \in {"missing", "undecodable"}}

InitRun ==
    /\ pc = "start"
    /\ img = NoImage
    /\ n_splits = 0
    /\ target_split_points = <<>>
    /\ actual_split_points = <<>>
    /\ resolved = <<>>
    /\ output_dir = FALSE
    /\ boundaries = <<>>
    /\ i = 0
    /\ parts = <<>>
    /\ args = [target_y |-> 0, search_range |-> 0]
    /\ best_y = 0

\* The module as imported (lines 15-18) and any file at input_path.
Init ==
    /\ MAX_HEIGHT = DefaultMaxHeight
    /\ SPLIT_HEIGHT = DefaultSplitHeight
    /\ SEARCH_RANGE = DefaultSearchRange
    /\ OVERLAP = DefaultOverlap
    /\ source \in Sources(LargeImages, LargeImagesWith(0))
    /\ InitRun

\* The same, over the tall images with at most one special row: every
\* order of the searches is explored for each of them.
InitAnyOrder ==
    /\ MAX_HEIGHT = DefaultMaxHeight
    /\ SPLIT_HEIGHT = DefaultSplitHeight
    /\ SEARCH_RANGE = DefaultSearchRange
    /\ OVERLAP = DefaultOverlap
    /\ source \in Sources(LargeImagesWith(1), LargeImagesWith(0))
    /\ InitRun

\* The module with lines 15-18 set to other values, valid or not.
ParamValues == -1..MaxParam
InitCfg ==
    /\ MAX_HEIGHT \in ParamValues
    /\ SPLIT_HEIGHT \in ParamValues
    /\ SEARCH_RANGE \in ParamValues
    /\ OVERLAP \in ParamValues
    /\ source \in Sources({im \in SmallImages : im.width = 3},
                          {im \in SmallImages : im.width = 3 /\ im.height = 1})
    /\ InitRun

\* A caller of find_safe_split_point with an image and arguments of its own.
InitFind ==
    /\ MAX_HEIGHT = DefaultMaxHeight
    /\ SPLIT_HEIGHT = DefaultSplitHeight
    /\ SEARCH_RANGE = DefaultSearchRange
    /\ OVERLAP = DefaultOverlap
    /\ \/ /\ img \in SmallImages
          /\ args \in [target_y : -1..(MaxSmallHeight + 1), search_range : ParamValues]
       \/ /\ img \in LargeImages
          /\ args \in [target_y : {DefaultSplitHeight * k : k \in 1..MaxSegs},
                        search_range : {DefaultSearchRange}]
    /\ source = [status |-> "ok", image |-> img]
    /\ pc = "call"
    /\ best_y = args.target_y
    /\ n_splits = 0
    /\ target_split_points = <<>>
    /\ actual_split_points = <<>>
    /\ resolved = <<>>
    /\ output_dir = FALSE
    /\ boundaries = <<>>
    /\ i = 0
    /\ parts = <<>>

Next ==
    \/ OpenImage
    \/ NoSplit
    \/ PlanSplits
    \/ FindSplitPoints
    \/ MakeOutputDir
    \/ SavePart
    \/ Finish

NextAnyOrder ==
    \/ OpenImage
    \/ NoSplit
    \/ PlanSplits
    \/ ResolveAny
    \/ Reassemble
    \/ MakeOutputDir
    \/ SavePart
    \/ Finish

\* split_long_image under the shipped configuration.
Spec == Init /\ [][Next]_vars
\* split_long_image under an overridden configuration.
SpecCfg == InitCfg /\ [][Next]_vars
\* split_long_image with the searches of lines 112-114 run in any order.
SpecAnyOrder == InitAnyOrder /\ [][NextAnyOrder]_vars
\* find_safe_split_point called directly.
SpecFind == InitFind /\ [][CallFind]_vars

----------------------------------------------------------------------------
\* Properties.

\* The rows of the segment file p.
RowsOf(p) == p.y_start..(p.y_end - 1)

\* C1: once every segment is written, the rows [y_start, y_end) of the
\* segments together are exactly the rows 0..H-1 of the image.
C1_Coverage ==
    pc = "done" =>
        UNION {RowsOf(parts[k]) : k \in DOMAIN parts} = 0..(img.height - 1)

\* A run that ended with three segments, the middle one cut off at the
\* bottom of the image.
C1_Witness ==
    /\ pc = "done"
    /\ Len(parts) = 3
    /\ actual_split_points[2] + OVERLAP > img.height

\* C2: a split derives the n-1 targets SPLIT_HEIGHT * k, k = 1..n-1, for
\* n the least integer with n * SPLIT_HEIGHT >= H, and a finished run has
\* written n segments numbered 1..n.
C2_Count ==
    /\ pc \in {"planned", "found", "splitting", "done"} =>
          /\ (n_splits - 1) * SPLIT_HEIGHT < img.height
          /\ img.height <= n_splits * SPLIT_HEIGHT
          /\ Len(target_split_points) = n_splits - 1
          /\ \A k \in 1..(n_splits - 1) : target_split_points[k] = SPLIT_HEIGHT * k
    /\ pc = "done" =>
          /\ Len(parts) = n_splits
          /\ \A k \in 1..n_splits : parts[k].index = k

\* A finished run on an image of exactly 3 * SPLIT_HEIGHT rows.
C2_Witness ==
    /\ pc = "done"
    /\ img.height = 3 * SPLIT_HEIGHT
    /\ Len(parts) = 3

\* C3: the row a direct call returns lies in the window
\* [max(0, target_y - search_range), min(height, target_y + search_range)),
\* hence within search_range of target_y and inside the image; for an
\* empty window it is target_y.
C3_WindowBound ==
    pc = "returned" =>
        LET lo == Max(0, args.target_y - args.search_range)
            hi == Min(img.height, args.target_y + args.search_range)
        IN  IF lo < hi
            THEN /\ lo <= best_y /\ best_y < hi
                 /\ Abs(best_y - args.target_y) <= args.search_range
                 /\ 0 <= best_y /\ best_y < img.height
            ELSE best_y = args.target_y

\* A call whose window is cut off by the bottom of the image and that
\* returns a row other than the target.
C3_Witness ==
    /\ pc = "returned"
    /\ args.target_y + args.search_range > img.height
    /\ args.target_y - args.search_range < img.height
    /\ args.search_range > 0
    /\ best_y # args.target_y

C5_NoOp ==
    /\ (img # NoImage /\ img.height <= MAX_HEIGHT) =>
          /\ pc \in {"opened", "no_split"}
          /\ n_splits = 0
          /\ target_split_points = <<>>
          /\ actual_split_points = <<>>
          /\ ~output_dir
          /\ boundaries = <<>>
          /\ parts = <<>>
    /\ pc = "no_split" => img.height <= MAX_HEIGHT

\* The run returned without a split on an image of exactly MAX_HEIGHT rows.
C5_Witness ==
    /\ pc = "no_split"
    /\ img.height = MAX_HEIGHT

\* Whether lines 15-18 hold a configuration the specification calls an error.
ConfigError ==
    \/ SPLIT_HEIGHT <= 0
    \/ MAX_HEIGHT <= 0
    \/ SEARCH_RANGE < 0
    \/ OVERLAP < 0

\* C6: under a configuration error the run loads no image, searches no
\* split point and writes nothing.
C6_ConfigErrorFirst ==
    ConfigError =>
        /\ img = NoImage
        /\ pc \in {"start", "input_error"}
        /\ actual_split_points = <<>>
        /\ ~output_dir
        /\ parts = <<>>

\* C7: a run that fails on its input has created no directory and written
\* no segment, and the directory exists only once the image is open and
\* every target has its split point.
C7_InputErrorFirst ==
    /\ pc = "input_error" => (~output_dir /\ parts = <<>>)
    /\ (output_dir \/ parts # <<>>) =>
          /\ img # NoImage
          /\ pc \in {"splitting", "done", "output_error"}
          /\ Len(actual_split_points) = n_splits - 1
          /\ Len(actual_split_points) = Len(target_split_points)

\* The pixel data of an opened file turned out truncated.
C7_Witness ==
    /\ pc = "input_error"
    /\ source.status = "truncated"
    /\ img # NoImage
    /\ ~output_dir

\* C8: whatever the order the targets were searched in, the split points
\* joined in target order are those of the loop of lines 111-118, and each
\* is the result of searching the image around its own target.
C8_OrderIndependent ==
    pc = "found" =>
        /\ actual_split_points =
              ResolveLoop(img, target_split_points, SEARCH_RANGE, <<>>)
        /\ \A k \in DOMAIN actual_split_points :
              actual_split_points[k] =
                 find_safe_split_point(img, SPLIT_HEIGHT * k, SEARCH_RANGE)

\* The second target was searched before the first, and the first cut is
\* off its target.
C8_Witness ==
    /\ pc = "found"
    /\ Len(resolved) = 2
    /\ resolved[1].index = 2
    /\ actual_split_points[1] # target_split_points[1]

\* C9: the boundaries never decrease, every segment written has
\* 0 <= y_start < y_end <= height, and the segments are written in
\* increasing y_start order.
C9_BoundaryOrder ==
    /\ \A k \in 1..(Len(boundaries) - 1) : boundaries[k] <= boundaries[k + 1]
    /\ \A k \in DOMAIN parts :
          /\ 0 <= parts[k].y_start
          /\ parts[k].y_start < parts[k].y_end
          /\ parts[k].y_end <= img.height
    /\ \A k \in 1..(Len(parts) - 1) : parts[k].y_start < parts[k + 1].y_start

\* Three segments written, the cuts off their targets in opposite directions.
C9_Witness ==
    /\ pc = "done"
    /\ Len(parts) = 3
    /\ actual_split_points[1] > target_split_points[1]
    /\ actual_split_points[2] < target_split_points[2]

\* C10: around every cut a, the segment before it ends at
\* min(a + OVERLAP, H), the segment after it starts at max(a - OVERLAP, 0),
\* the rows the two share are exactly those in between, 2 * OVERLAP of them
\* when neither bound clamps; the first segment starts at 0 and the last
\* ends at H.
C10_OverlapStrip ==
    pc = "done" =>
        /\ parts[1].y_start = 0
        /\ parts[Len(parts)].y_end = img.height
        /\ \A k \in DOMAIN actual_split_points :
              LET a == actual_split_points[k]
                  lo == Max(a - OVERLAP, 0)
                  hi == Min(a + OVERLAP, img.height)
                  shared == RowsOf(parts[k]) \cap RowsOf(parts[k + 1])
              IN  /\ parts[k].y_end = hi
                  /\ parts[k + 1].y_start = lo
                  /\ shared = lo..(hi - 1)
                  /\ (a - OVERLAP >= 0 /\ a + OVERLAP <= img.height)
                        => Cardinality(shared) = 2 * OVERLAP

\* A finished run with one cut whose strip is whole and one whose strip is
\* cut off by the bottom of the image.
C10_Witness ==
    /\ pc = "done"
    /\ Len(actual_split_points) = 2
    /\ actual_split_points[1] + OVERLAP <= img.height
    /\ actual_split_points[2] + OVERLAP > img.height
    /\ actual_split_points[1] # target_split_points[1]

====
